---- MODULE Spec2Model ----
(***************************************************************************)
(* nonzero_lit: twelve macros usize! .. i128! that turn a constant integer *)
(* expression into a core::num::NonZero* constant, and the private const   *)
(* constructors nz_usize .. nz_i128 they call (src/src/lib.rs).            *)
(*                                                                         *)
(* The model is the compilation and execution of caller programs that use  *)
(* one macro invocation.  Integers are two's-complement bit sequences      *)
(* (least significant bit first) of the width of their primitive type, so  *)
(* that MIN, MAX, wrap-around and the 128-bit types are represented        *)
(* exactly.                                                                *)
(***************************************************************************)
EXTENDS Integers, Sequences, FiniteSets, TLC

VARIABLES
    ptr_width,  \* target pointer width: the width of usize and isize
    const_err,  \* what a constant-evaluation failure is to the compiler in use:
                \* the lint const_err ("lint") or an error outright ("hard_error")
    macro,      \* the macro invoked: the name of its primitive type
    arg,        \* the argument expression $val
    p,          \* index in Programs of the caller program being processed
    pc,         \* position of the compiler / program in the current program
    exp,        \* the macro's expansion in the current program
    E,          \* value of the expansion's `const __E`
    idx,        \* index computed by the constructor's assertion
    opt,        \* result of NonZero::new inside the constructor
    NZ,         \* value of the expansion's `const NZ`
    steps,      \* constructor steps taken in the current program, in order
    outcome,    \* per program: "pending", "ok", "compile_error", ...
    reason,     \* per program: why it failed ("" when it did not)
    phase,      \* per program: where the zero test ran ("", "compile", "runtime")
    result,     \* per program: the value the invocation produced
    rt_ops      \* per program: operations executed when the program runs

vars == <<ptr_width, const_err, macro, arg, p, pc, exp, E, idx, opt, NZ, steps,
          outcome, reason, phase, result, rt_ops>>

----------------------------------------------------------------------------
(* Primitive types and their NonZero wrappers.                             *)

IntTypes == {"usize", "isize", "u8", "i8", "u16", "i16",
             "u32", "i32", "u64", "i64", "u128", "i128"}

PointerWidths == {32, 64}

\* the two treatments of a constant-evaluation failure by the compiler
ConstErrKinds == {"lint", "hard_error"}

Signed(ty) == ty \in {"isize", "i8", "i16", "i32", "i64", "i128"}

Width(ty) ==
    CASE ty \in {"usize", "isize"} -> ptr_width
      [] ty \in {"u8", "i8"}       -> 8
      [] ty \in {"u16", "i16"}     -> 16
      [] ty \in {"u32", "i32"}     -> 32
      [] ty \in {"u64", "i64"}     -> 64
      [] ty \in {"u128", "i128"}   -> 128

NonZeroOf(ty) ==
    CASE ty = "usize" -> "NonZeroUsize"
      [] ty = "isize" -> "NonZeroIsize"
      [] ty = "u8"    -> "NonZeroU8"
      [] ty = "i8"    -> "NonZeroI8"
      [] ty = "u16"   -> "NonZeroU16"
      [] ty = "i16"   -> "NonZeroI16"
      [] ty = "u32"   -> "NonZeroU32"
      [] ty = "i32"   -> "NonZeroI32"
      [] ty = "u64"   -> "NonZeroU64"
      [] ty = "i64"   -> "NonZeroI64"
      [] ty = "u128"  -> "NonZeroU128"
      [] ty = "i128"  -> "NonZeroI128"

NonZeroTypes == {NonZeroOf(t) : t \in IntTypes}

PrimOf(nzty) == CHOOSE t \in IntTypes : NonZeroOf(t) = nzty

----------------------------------------------------------------------------
(* Two's-complement arithmetic on bit sequences.                           *)

\* the w low bits of the natural number n (n < 2^31)
BitsOfNat(n, w) ==
    [i \in 1..w |-> IF i > 31 THEN 0 ELSE (n \div (2 ^ (i - 1))) % 2]

BitNot(b) == [i \in 1..Len(b) |-> 1 - b[i]]

BitAnd(a, b) == [i \in 1..Len(a) |-> IF a[i] = 1 /\ b[i] = 1 THEN 1 ELSE 0]

\* the bits of the small integer n in a type of width w
BitsOfInt(n, w) == IF n >= 0 THEN BitsOfNat(n, w) ELSE BitNot(BitsOfNat(-n - 1, w))

\* whether the natural number n (n < 2^31) is below 2^w
FitsNat(n, w) == IF w > 30 THEN TRUE ELSE n < 2 ^ w

\* whether the integer n is a value of type ty
Fits(n, ty) ==
    IF Signed(ty)
    THEN (IF n >= 0 THEN FitsNat(n, Width(ty) - 1) ELSE FitsNat(-n - 1, Width(ty) - 1))
    ELSE n >= 0 /\ FitsNat(n, Width(ty))

MinBits(ty) ==
    [i \in 1..Width(ty) |-> IF Signed(ty) /\ i = Width(ty) THEN 1 ELSE 0]

MaxBits(ty) ==
    [i \in 1..Width(ty) |-> IF Signed(ty) /\ i = Width(ty) THEN 0 ELSE 1]

\* carry into position i of a + b: some lower position generates a carry and
\* every position between propagates it
Carry(a, b, i) ==
    IF \E j \in 1..(i - 1) :
            /\ a[j] = 1 /\ b[j] = 1
            /\ \A k \in (j + 1)..(i - 1) : a[k] + b[k] >= 1
    THEN 1 ELSE 0

WrappingAdd(a, b) == [i \in 1..Len(a) |-> (a[i] + b[i] + Carry(a, b, i)) % 2]

\* whether a + b overflows the type ty (the `+` operator fails in that case)
AddOverflows(a, b, ty) ==
    LET w == Len(a)
        s == WrappingAdd(a, b)
    IN  IF Signed(ty)
        THEN a[w] = b[w] /\ s[w] # a[w]
        ELSE Carry(a, b, w + 1) = 1

\* the number of positions of b holding the bit v
CountBits(b, v) == Cardinality({i \in 1..Len(b) : b[i] = v})

\* `e as ty`: truncation, or sign/zero extension from the source type
CastBits(b, from, ty) ==
    [i \in 1..Width(ty) |->
        IF i <= Len(b) THEN b[i]
        ELSE IF Signed(from) THEN b[Len(b)] ELSE 0]

----------------------------------------------------------------------------
(* Expressions of the caller's program and of the macro expansion.         *)
(* Every expression is a record of the same shape:                         *)
(*   op    the kind of expression                                          *)
(*   ty    a type annotation (literal suffix, T::MIN, `as T`, nz_T, T!)    *)
(*   n     the digits of an integer literal                                *)
(*   name  an identifier                                                   *)
(*   args  the operands                                                    *)
(*   items the items a block declares                                      *)

Mk(op, ty, n, name, args, items) ==
    [op |-> op, ty |-> ty, n |-> n, name |-> name, args |-> args, items |-> items]

Lit(n)            == Mk("lit", "infer", n, "", <<>>, <<>>)
LitT(n, ty)       == Mk("lit", ty, n, "", <<>>, <<>>)
TMin(ty)          == Mk("tmin", ty, 0, "", <<>>, <<>>)
TMax(ty)          == Mk("tmax", ty, 0, "", <<>>, <<>>)
Name(id)          == Mk("name", "", 0, id, <<>>, <<>>)
Not(a)            == Mk("not", "", 0, "", <<a>>, <<>>)
And(a, b)         == Mk("and", "", 0, "", <<a, b>>, <<>>)
Add(a, b)         == Mk("add", "", 0, "", <<a, b>>, <<>>)
WrapAdd(a, b)     == Mk("wrapping_add", "", 0, "", <<a, b>>, <<>>)
CountZeros(a)     == Mk("count_zeros", "", 0, "", <<a>>, <<>>)
As(a, ty)         == Mk("as", ty, 0, "", <<a>>, <<>>)
Get(a)            == Mk("get", "", 0, "", <<a>>, <<>>)
MacroCall(ty, a)  == Mk("macro", ty, 0, "", <<a>>, <<>>)
CallNz(ty, a)     == Mk("call_nz", ty, 0, "", <<a>>, <<>>)
Block(its, body)  == Mk("block", "", 0, "", <<body>>, its)

\* an item or binding declared in a scope
Item(kind, id, ty, init, attr) ==
    [kind |-> kind, name |-> id, ty |-> ty, init |-> init, attr |-> attr]

ConstItem(id, ty, init, attr) == Item("const", id, ty, init, attr)

----------------------------------------------------------------------------
(* The macros.  All twelve have the same body up to the type name.         *)

\* the expansion calling the constructor in place, without the const NZ
ExpandInline(ty, val) ==
    Block(<<ConstItem("__E", ty, val, "none")>>, CallNz(ty, Name("__E")))

\* the naive "construct and check" form: the constructor applied to $val
ExpandDirect(ty, val) == CallNz(ty, val)

\* the expansion binding its argument with `let` and calling in place
ExpandLet(ty, val) ==
    Block(<<Item("local", "__E", ty, val, "none")>>, CallNz(ty, Name("__E")))

\* the expansion converting its argument: const __E: T = $val as T
ExpandCast(ty, val) ==
    Block(<<ConstItem("__E", ty, As(val, ty), "none")>>,
          Block(<<ConstItem("NZ", NonZeroOf(ty), CallNz(ty, Name("__E")), "deny")>>,
                Name("NZ")))

\* macro_rules! T { ($val:expr $(,)?) => {{
\*     const __E: T = $val;
\*     { #[deny(const_err)] const NZ: NonZeroT = nz_T(__E); NZ }
\* }}; }
\* the expansion without #[deny(const_err)] on NZ
ExpandNoDeny(ty, val) ==
    Block(<<ConstItem("__E", ty, val, "none")>>,
          Block(<<ConstItem("NZ", NonZeroOf(ty), CallNz(ty, Name("__E")), "none")>>,
                Name("NZ")))

Expand(ty, val) ==
    Block(<<ConstItem("__E", ty, val, "none")>>,
          Block(<<ConstItem("NZ", NonZeroOf(ty), CallNz(ty, Name("__E")), "deny")>>,
                Name("NZ")))

----------------------------------------------------------------------------
(* Name resolution.  A scope stack F is a sequence of frames, outermost    *)
(* first; a frame is the sequence of items of one block.  macro_rules      *)
(* hygiene does not rename items, so the items of an expansion are found   *)
(* by plain name like the caller's.                                        *)

Declares(frame, id) == \E i \in 1..Len(frame) : frame[i].name = id

\* [d |-> depth of the innermost frame declaring id (0: none), i |-> its index]
Resolve(id, F) ==
    LET ds == {d \in 1..Len(F) : Declares(F[d], id)}
    IN  IF ds = {} THEN [d |-> 0, i |-> 0]
        ELSE LET d == CHOOSE x \in ds : \A y \in ds : y <= x
             IN  [d |-> d, i |-> CHOOSE i \in 1..Len(F[d]) : F[d][i].name = id]

----------------------------------------------------------------------------
(* Type checking.  TypeOf yields the type of e where a value of type       *)
(* `want` is expected ("any": no expectation), or a static error.  b is   *)
(* the outermost frame whose local variables e may use: the initialiser of *)
(* a const item and the body of a fn item see no local declared around     *)
(* them.                                                                   *)

StaticErrors == {"!type_mismatch", "!non_const", "!unresolved", "!ambiguous_numeric"}

\* whether e is an integer of no determined type ({integer}): unsuffixed
\* literals and operators applied to them; a method cannot be called on it
RECURSIVE Ambiguous(_)
Ambiguous(e) ==
    CASE e.op = "lit" -> e.ty = "infer"
      [] e.op = "not" -> Ambiguous(e.args[1])
      [] e.op \in {"and", "add"} -> Ambiguous(e.args[1]) /\ Ambiguous(e.args[2])
      [] OTHER -> FALSE

\* whether e is a literal, possibly under unary operators: the operand of
\* a cast that takes the cast's target type as its own
RECURSIVE LitUnderNot(_)
LitUnderNot(e) ==
    CASE e.op = "lit" -> TRUE
      [] e.op = "not" -> LitUnderNot(e.args[1])
      [] OTHER -> FALSE

\* the type a cast suggests to its operand
CastHint(e) == IF LitUnderNot(e.args[1]) THEN e.ty ELSE "any"

\* the operand of a binary operator that is typed first: the second one
\* when the first alone is of undetermined integer type
Lead(e) == IF Ambiguous(e.args[1]) /\ ~Ambiguous(e.args[2]) THEN 2 ELSE 1

\* the type of the type-correct expression e where `want` is expected
RECURSIVE StaticType(_, _, _)
StaticType(e, want, F) ==
    CASE e.op = "lit" ->
            IF e.ty # "infer" THEN e.ty
            ELSE IF want \in IntTypes THEN want ELSE "i32"
      [] e.op \in {"tmin", "tmax", "as"} -> e.ty
      [] e.op = "name" ->
            LET r == Resolve(e.name, F)
            IN  IF r.d = 0 THEN "" ELSE F[r.d][r.i].ty
      [] e.op = "not" -> StaticType(e.args[1], want, F)
      [] e.op \in {"and", "add", "wrapping_add"} ->
            StaticType(e.args[Lead(e)], want, F)
      [] e.op = "count_zeros" -> "u32"
      [] e.op = "get" -> PrimOf(StaticType(e.args[1], "any", F))
      [] e.op \in {"macro", "call_nz"} -> NonZeroOf(e.ty)
      [] e.op = "block" -> StaticType(e.args[1], want, Append(F, e.items))

RECURSIVE TypeOf(_, _, _, _)
RECURSIVE ItemsError(_, _, _, _)

\* the first static error among the items its[k..] declared in scope F, or "ok"
ItemsError(its, F, k, b) ==
    IF k > Len(its) THEN "ok"
    ELSE LET it == its[k]
             t  == TypeOf(it.init, it.ty, F,
                          IF it.kind = "const" THEN Len(F) + 1 ELSE b)
         IN  IF t \in StaticErrors THEN t
             ELSE IF t # it.ty THEN "!type_mismatch"
             ELSE ItemsError(its, F, k + 1, b)

TypeOf(e, want, F, b) ==
    CASE e.op = "lit" ->
            LET t == IF e.ty # "infer" THEN e.ty
                     ELSE IF want \in IntTypes THEN want
                     ELSE IF want = "any" THEN "i32" ELSE ""
            IN  IF t = "" THEN "!type_mismatch"
                ELSE IF e.n < 0 /\ ~Signed(t) THEN "!type_mismatch"
                ELSE t
      [] e.op \in {"tmin", "tmax"} -> e.ty
      [] e.op = "name" ->
            LET r == Resolve(e.name, F)
            IN  IF r.d = 0 THEN "!unresolved"
                ELSE IF F[r.d][r.i].kind = "local" /\ r.d < b THEN "!non_const"
                ELSE F[r.d][r.i].ty
      [] e.op = "not" ->
            LET t == TypeOf(e.args[1], want, F, b)
            IN  IF t \in StaticErrors \/ t \in IntTypes THEN t ELSE "!type_mismatch"
      [] e.op \in {"and", "add", "wrapping_add"} ->
            LET t1 == IF e.op = "wrapping_add" /\ Ambiguous(e.args[1])
                      THEN "!ambiguous_numeric"
                      ELSE TypeOf(e.args[Lead(e)], want, F, b)
            IN  IF t1 \in StaticErrors THEN t1
                ELSE IF t1 \notin IntTypes THEN "!type_mismatch"
                ELSE LET t2 == TypeOf(e.args[3 - Lead(e)], t1, F, b)
                     IN  IF t2 \in StaticErrors THEN t2
                         ELSE IF t2 # t1 THEN "!type_mismatch" ELSE t1
      [] e.op = "count_zeros" ->
            LET t == IF Ambiguous(e.args[1]) THEN "!ambiguous_numeric"
                     ELSE TypeOf(e.args[1], "any", F, b)
            IN  IF t \in StaticErrors THEN t
                ELSE IF t \notin IntTypes THEN "!type_mismatch" ELSE "u32"
      [] e.op = "as" ->
            LET t == TypeOf(e.args[1], CastHint(e), F, b)
            IN  IF t \in StaticErrors THEN t
                ELSE IF t \notin IntTypes THEN "!type_mismatch" ELSE e.ty
      [] e.op = "get" ->
            LET t == IF Ambiguous(e.args[1]) THEN "!ambiguous_numeric"
                     ELSE TypeOf(e.args[1], "any", F, b)
            IN  IF t \in StaticErrors THEN t
                ELSE IF t \notin NonZeroTypes THEN "!type_mismatch" ELSE PrimOf(t)
      [] e.op = "macro" -> TypeOf(Expand(e.ty, e.args[1]), want, F, b)
      [] e.op = "call_nz" ->
            LET t == TypeOf(e.args[1], e.ty, F, b)
            IN  IF t \in StaticErrors THEN t
                ELSE IF t # e.ty THEN "!type_mismatch" ELSE NonZeroOf(e.ty)
      [] e.op = "block" ->
            LET F2  == Append(F, e.items)
                err == ItemsError(e.items, F2, 1, b)
            IN  IF err # "ok" THEN err ELSE TypeOf(e.args[1], want, F2, b)

\* the name-resolution errors anywhere in e: they are found before typing
RECURSIVE NameErrors(_, _, _)
NameErrors(e, F, b) ==
    CASE e.op = "name" ->
            LET r == Resolve(e.name, F)
            IN  IF r.d = 0 THEN {"!unresolved"}
                ELSE IF F[r.d][r.i].kind = "local" /\ r.d < b THEN {"!non_const"}
                ELSE {}
      [] e.op = "macro" -> NameErrors(Expand(e.ty, e.args[1]), F, b)
      [] e.op = "block" ->
            LET F2 == Append(F, e.items)
            IN  UNION {NameErrors(e.items[k].init, F2,
                                  IF e.items[k].kind = "const" THEN Len(F2) + 1 ELSE b) :
                          k \in 1..Len(e.items)}
                \cup NameErrors(e.args[1], F2, b)
      [] OTHER -> UNION {NameErrors(e.args[k], F, b) : k \in 1..Len(e.args)}

\* "ok", or the static error of e where a value of type `want` is expected;
\* of several, the use of a non-constant value is the first one reported
Check(e, want, F, b) ==
    LET ne == NameErrors(e, F, b)
        t  == TypeOf(e, want, F, b)
    IN  IF "!non_const" \in ne THEN "!non_const"
        ELSE IF "!unresolved" \in ne THEN "!unresolved"
        ELSE IF t \in StaticErrors THEN t
        ELSE IF want # "any" /\ t # want THEN "!type_mismatch" ELSE "ok"

\* whether a literal of the type-correct expression e lies outside the range
\* of its type.  Such a literal wraps when it is evaluated; the
\* deny-by-default lint overflowing_literals rejects it afterwards
RECURSIVE LitOverflow(_, _, _)
LitOverflow(e, want, F) ==
    CASE e.op = "lit" ->
            LET t == IF e.ty # "infer" THEN e.ty
                     ELSE IF want \in IntTypes THEN want ELSE "i32"
            IN  ~Fits(e.n, t)
      [] e.op \in {"tmin", "tmax", "name"} -> FALSE
      [] e.op = "not" -> LitOverflow(e.args[1], want, F)
      [] e.op \in {"and", "add", "wrapping_add"} ->
            LET t == StaticType(e, want, F)
            IN  \E k \in 1..2 : LitOverflow(e.args[k], t, F)
      [] e.op \in {"count_zeros", "get"} -> LitOverflow(e.args[1], "any", F)
      [] e.op = "as" -> LitOverflow(e.args[1], CastHint(e), F)
      [] e.op = "call_nz" -> LitOverflow(e.args[1], e.ty, F)
      [] e.op = "macro" -> LitOverflow(Expand(e.ty, e.args[1]), want, F)
      [] e.op = "block" ->
            LET F2 == Append(F, e.items)
            IN  \/ \E k \in 1..Len(e.items) :
                      LitOverflow(e.items[k].init, e.items[k].ty, F2)
                \/ LitOverflow(e.args[1], want, F2)

----------------------------------------------------------------------------
(* Values and the private constructors nz_usize .. nz_i128.                *)

Ok(ty, bits) == [tag |-> "ok", ty |-> ty, bits |-> bits, why |-> "", hard |-> FALSE]
Err(why, hard) == [tag |-> "err", ty |-> "", bits |-> <<>>, why |-> why, hard |-> hard]
NoValue == [tag |-> "none", ty |-> "", bits |-> <<>>, why |-> "", hard |-> FALSE]

\* $n == 0
IsZero(n) == \A i \in 1..Len(n) : n[i] = 0

\* the array literal indexed by the assertion
Messages == <<"N must not be zero">>

\* an index that never selects the second position
IndexOfNever(n) == 0

\* ($n == 0) as usize
IndexOf(n) == IF IsZero(n) THEN 1 ELSE 0

\* a bounds check that accepts every index
InBoundsAlways(i) == TRUE

\* whether the (zero-based) index i is inside the array literal
InBounds(i) == i < Len(Messages)

\* $NonZeroInt::new($n): None for zero, Some(n) otherwise
NonZeroNew(ty, n) ==
    IF IsZero(n) THEN [some |-> FALSE, ty |-> NonZeroOf(ty), bits |-> <<>>]
    ELSE [some |-> TRUE, ty |-> NonZeroOf(ty), bits |-> n]

NoOption == [some |-> FALSE, ty |-> "", bits |-> <<>>]

\* the whole of nz_T(n): the assertion, then the match on NonZero::new
NzCtor(ty, n) ==
    IF ~InBounds(IndexOf(n)) THEN Err("index_out_of_bounds", FALSE)
    ELSE LET o == NonZeroNew(ty, n)
         IN  IF o.some THEN Ok(o.ty, o.bits) ELSE Err("diverges", TRUE)

----------------------------------------------------------------------------
(* Constant evaluation.  Eval yields the value of a type-correct           *)
(* expression, or the error that stops its evaluation.  vis is the set of  *)
(* items whose initialiser is being evaluated; an item that needs its own  *)
(* value is a cycle.  An error is `hard` when it is reported whatever the  *)
(* level: a cycle, or a failure inside an item marked #[deny(const_err)].  *)
(* The constants an initialiser uses are evaluated before its own          *)
(* operations, in the order in which its operations mention them.          *)

\* the operands of e that are named directly: they are read by e's own
\* operation, after the operations that compute its other operands
Direct(e) == SelectSeq(e.args, LAMBDA a : a.op = "name")

\* the nested invocations and the names e uses, in the order of the
\* operations that read them
RECURSIVE Uses(_)
Uses(e) ==
    IF e.op \in {"macro", "name"} THEN <<e>>
    ELSE IF e.op = "block" \/ Len(e.args) = 0 THEN <<>>
    ELSE IF Len(e.args) = 1
         THEN (IF e.args[1].op = "name" THEN <<>> ELSE Uses(e.args[1])) \o Direct(e)
    ELSE (IF e.args[1].op = "name" THEN <<>> ELSE Uses(e.args[1]))
         \o (IF e.args[2].op = "name" THEN <<>> ELSE Uses(e.args[2]))
         \o Direct(e)

\* a op b on evaluated operands of one type: the first operand's error, else
\* the second's, else the result; + fails when it overflows
BinOp(op, a, b) ==
    IF a.tag = "err" THEN a
    ELSE IF b.tag = "err" THEN b
    ELSE IF op = "and" THEN Ok(a.ty, BitAnd(a.bits, b.bits))
    ELSE IF op = "add" /\ AddOverflows(a.bits, b.bits, a.ty)
         THEN Err("arith_overflow", FALSE)
    ELSE Ok(a.ty, WrappingAdd(a.bits, b.bits))

\* v when it is an error, else w
OrElse(v, w) == IF v.tag = "err" THEN v ELSE w

\* the outcome v of evaluating an item carrying `attr`
Harden(attr, v) ==
    IF v.tag = "err" /\ attr = "deny" THEN [v EXCEPT !.hard = TRUE] ELSE v

RECURSIVE Eval(_, _, _, _)
RECURSIVE EvalItems(_, _, _, _)

\* the initialiser e of a const item, as the body that is evaluated
Body(e) == Mk("body", "", 0, "", <<e>>, <<>>)

EvalItem(it, d, F, vis) ==
    IF <<d, it>> \in vis THEN Err("cycle", TRUE)
    ELSE Harden(it.attr, Eval(Body(it.init), it.ty, SubSeq(F, 1, d),
                              vis \cup {<<d, it>>}))

\* the first error among the const items its[k..] of the innermost frame of F
EvalItems(its, F, k, vis) ==
    IF k > Len(its) THEN NoValue
    ELSE OrElse(IF its[k].kind = "const" THEN EvalItem(its[k], Len(F), F, vis)
                ELSE NoValue,
                EvalItems(its, F, k + 1, vis))

Eval(e, want, F, vis) ==
    CASE e.op = "lit" ->
            LET t == IF e.ty # "infer" THEN e.ty
                     ELSE IF want \in IntTypes THEN want ELSE "i32"
            IN  Ok(t, BitsOfInt(e.n, Width(t)))
      [] e.op = "body" ->
            LET us  == Uses(e.args[1])
                bad == {k \in 1..Len(us) : Eval(us[k], "any", F, vis).tag = "err"}
            IN  IF bad # {}
                THEN Eval(us[CHOOSE k \in bad : \A j \in bad : k <= j], "any", F, vis)
                ELSE Eval(e.args[1], want, F, vis)
      [] e.op = "tmin" -> Ok(e.ty, MinBits(e.ty))
      [] e.op = "tmax" -> Ok(e.ty, MaxBits(e.ty))
      [] e.op = "name" ->
            LET r == Resolve(e.name, F)
            IN  EvalItem(F[r.d][r.i], r.d, F, vis)
      [] e.op = "not" ->
            LET a == Eval(e.args[1], want, F, vis)
            IN  IF a.tag = "err" THEN a ELSE Ok(a.ty, BitNot(a.bits))
      [] e.op \in {"and", "add", "wrapping_add"} ->
            BinOp(e.op, Eval(e.args[1], StaticType(e, want, F), F, vis),
                        Eval(e.args[2], StaticType(e, want, F), F, vis))
      [] e.op = "count_zeros" ->
            LET a == Eval(e.args[1], "any", F, vis)
            IN  IF a.tag = "err" THEN a
                ELSE Ok("u32", BitsOfNat(CountBits(a.bits, 0), Width("u32")))
      [] e.op = "as" ->
            LET a == Eval(e.args[1], CastHint(e), F, vis)
            IN  IF a.tag = "err" THEN a ELSE Ok(e.ty, CastBits(a.bits, a.ty, e.ty))
      [] e.op = "get" ->
            LET a == Eval(e.args[1], "any", F, vis)
            IN  IF a.tag = "err" THEN a ELSE Ok(PrimOf(a.ty), a.bits)
      [] e.op = "macro" -> Eval(Expand(e.ty, e.args[1]), want, F, vis)
      [] e.op = "call_nz" ->
            LET a == Eval(e.args[1], e.ty, F, vis)
            IN  IF a.tag = "err" THEN a ELSE NzCtor(e.ty, a.bits)
      [] e.op = "block" ->
            LET F2 == Append(F, e.items)
                ie == EvalItems(e.items, F2, 1, vis)
            IN  IF ie.tag = "err" THEN ie ELSE Eval(e.args[1], want, F2, vis)

\* the level at which a constant-evaluation failure inside an item carrying
\* `attr` is reported under the caller's setting `lint`.  Where const_err is
\* a lint, #[deny(const_err)] on the item fixes the level, and without it
\* the caller's allow applies; where the failure is an error outright no
\* setting changes it
ReportLevel(attr, lint) ==
    IF const_err = "hard_error" THEN "deny"
    ELSE IF attr = "deny" THEN "deny"
    ELSE IF lint \in {"allow_item", "allow_crate"} THEN "allow"
    ELSE "deny"

----------------------------------------------------------------------------
(* The caller's programs.  Each program holds the same invocation          *)
(* macro!(arg) in one usage context under one lint setting:                *)
(*   const_item   const X: NonZeroT = macro!(arg);                         *)
(*   let          let x = macro!(arg);                                     *)
(*   const_fn     const fn f() -> NonZeroT { macro!(arg) }, called as f()  *)
(* and  default | #[allow(const_err)] on the item | #![allow(const_err)].  *)

Contexts == <<"const_item", "let", "const_fn">>
Lints    == <<"default", "allow_item", "allow_crate">>

Programs ==
    [k \in 1..(Len(Contexts) * Len(Lints)) |->
        [ctx  |-> Contexts[((k - 1) \div Len(Lints)) + 1],
         lint |-> Lints[((k - 1) % Len(Lints)) + 1]]]

Progs == 1..Len(Programs)

\* what the caller declares around the invocation: constants of the macro's
\* type named A, NZ and __E, and the local variable `let bar = 3;`
CallerFrame(ty) ==
    <<ConstItem("A", ty, Lit(5), "none"),
      ConstItem("NZ", ty, Lit(7), "none"),
      ConstItem("__E", ty, Lit(9), "none"),
      Item("local", "bar", ty, Lit(3), "none")>>

CallerScope == <<CallerFrame(macro)>>

\* an integer type other than ty
Other(ty) == IF ty = "u32" THEN "i128" ELSE "u32"

\* the argument expressions tried with the macro ty
Args(ty) ==
    { Lit(0), Lit(1), Lit(4), Lit(127), Lit(-1), Lit(-128), Lit(300), Lit(256),
      Not(Lit(255)), As(Lit(-1), ty), As(Lit(300), ty),
      CountZeros(Lit(5)), WrapAdd(Lit(5), Name("A")), Get(Lit(3)),
      As(CountZeros(And(Lit(5), Name("A"))), ty), As(Add(Lit(200), Lit(100)), ty),
      Add(Add(TMax(ty), Lit(1)), Name("__E")),
      Add(Name("__E"), Get(MacroCall(ty, Lit(0)))),
      Add(Not(Name("__E")), Get(MacroCall(ty, Lit(0)))),
      Add(Get(MacroCall(ty, TMax(ty))), Lit(1)),
      TMin(ty), TMax(ty), Not(TMax(ty)),
      WrapAdd(TMax(ty), Lit(1)), Add(TMax(ty), Lit(1)), Add(Name("A"), Lit(45)),
      Name("A"), Name("NZ"), Name("__E"), Name("bar"), Add(Name("bar"), Lit(1)),
      And(Name("A"), Name("NZ")), Add(Name("__E"), Lit(1)),
      CountZeros(TMin("i128")), CountZeros(TMax("u8")),
      As(CountZeros(TMin("i128")), ty),
      LitT(0, Other(ty)), LitT(4, Other(ty)),
      MacroCall(ty, Lit(3)),
      Add(Get(MacroCall(ty, Lit(3))), Lit(1)),
      Get(MacroCall(ty, Lit(0))),
      Get(MacroCall(ty, Name("NZ"))) }

----------------------------------------------------------------------------
(* Shape of an expansion.                                                  *)

IsBlock(x) == x.op = "block"

HasE(x) == IsBlock(x) /\ Len(x.items) >= 1 /\ x.items[1].name = "__E"

\* the expansion declares NZ in a block of its own, nested in the first
HasNZ(x) ==
    /\ HasE(x)
    /\ IsBlock(x.args[1])
    /\ Len(x.args[1].items) = 1
    /\ x.args[1].items[1].name = "NZ"
    /\ x.args[1].items[1].init.op = "call_nz"

OuterScope(x) == Append(CallerScope, x.items)

RECURSIVE TailOf(_)
TailOf(x) == IF IsBlock(x) THEN TailOf(x.args[1]) ELSE x

RECURSIVE TailScope(_, _)
TailScope(x, F) == IF IsBlock(x) THEN TailScope(x.args[1], Append(F, x.items)) ELSE F

\* the operations a running program executes to evaluate e in scope F
RECURSIVE RuntimeOps(_, _)
RuntimeOps(e, F) ==
    CASE e.op \in {"lit", "tmin", "tmax"} -> <<"imm">>
      [] e.op = "name" ->
            LET r == Resolve(e.name, F)
            IN  IF F[r.d][r.i].kind = "const" THEN <<"load_const">> ELSE <<"load_local">>
      [] e.op \in {"not", "count_zeros", "as", "get"} ->
            RuntimeOps(e.args[1], F) \o <<e.op>>
      [] e.op \in {"and", "add", "wrapping_add"} ->
            RuntimeOps(e.args[1], F) \o RuntimeOps(e.args[2], F) \o <<e.op>>
      [] e.op = "macro" -> RuntimeOps(Expand(e.ty, e.args[1]), F)
      [] e.op = "call_nz" ->
            RuntimeOps(e.args[1], F)
                \o <<"call", "zero_test", "bounds_check", "NonZero::new", "match">>
      [] e.op = "block" -> RuntimeOps(e.args[1], Append(F, e.items))

\* whether the value of e is known when the program is compiled without
\* evaluating a call
RECURSIVE NoCalls(_)
NoCalls(e) ==
    CASE e.op \in {"lit", "tmin", "tmax", "name"} -> TRUE
      [] e.op \in {"not", "and", "add", "as"} ->
            \A k \in 1..Len(e.args) : NoCalls(e.args[k])
      [] OTHER -> FALSE

\* whether v is the failure of an addition
Overflowed(v) == v.tag = "err" /\ v.why = "arith_overflow"

\* whether a + of the run-time part of e is known to overflow when the
\* program is compiled (lint arithmetic_overflow, denied by default)
RECURSIVE KnownOverflow(_, _, _)
KnownOverflow(e, want, F) ==
    CASE e.op \in {"lit", "tmin", "tmax", "name"} -> FALSE
      [] e.op = "macro" -> KnownOverflow(Expand(e.ty, e.args[1]), want, F)
      [] e.op = "block" ->
            \/ \E k \in 1..Len(e.items) :
                  /\ e.items[k].kind = "local"
                  /\ KnownOverflow(e.items[k].init, e.items[k].ty, Append(F, e.items))
            \/ KnownOverflow(e.args[1], want, Append(F, e.items))
      [] e.op \in {"and", "add", "wrapping_add"} ->
            \/ e.op = "add" /\ NoCalls(e) /\ Overflowed(Eval(e, want, F, {}))
            \/ \E k \in 1..2 : KnownOverflow(e.args[k], StaticType(e, want, F), F)
      [] e.op = "as" -> KnownOverflow(e.args[1], CastHint(e), F)
      [] e.op = "call_nz" -> KnownOverflow(e.args[1], e.ty, F)
      [] OTHER -> KnownOverflow(e.args[1], "any", F)

\* the run-time part of e as a build without overflow checks executes it:
\* + wraps; const items keep their checked evaluation
RECURSIVE Wrapping(_)
Wrapping(e) ==
    CASE e.op \in {"lit", "tmin", "tmax", "name"} -> e
      [] e.op = "macro" -> Wrapping(Expand(e.ty, e.args[1]))
      [] e.op = "block" ->
            [e EXCEPT !.args = <<Wrapping(e.args[1])>>,
                      !.items = [k \in 1..Len(e.items) |->
                                    IF e.items[k].kind = "local"
                                    THEN [e.items[k] EXCEPT !.init = Wrapping(@)]
                                    ELSE e.items[k]]]
      [] OTHER ->
            [e EXCEPT !.op = IF @ = "add" THEN "wrapping_add" ELSE @,
                      !.args = [k \in 1..Len(e.args) |-> Wrapping(e.args[k])]]

\* the first error among the const items declared anywhere inside e: const
\* items are evaluated when the program is compiled, wherever they stand
RECURSIVE ConstItemsError(_, _)
RECURSIVE ArgsError(_, _, _)

ArgsError(as, F, k) ==
    IF k > Len(as) THEN NoValue
    ELSE OrElse(ConstItemsError(as[k], F), ArgsError(as, F, k + 1))

ConstItemsError(e, F) ==
    CASE e.op = "block" ->
            OrElse(EvalItems(e.items, Append(F, e.items), 1, {}),
                   ConstItemsError(e.args[1], Append(F, e.items)))
      [] e.op = "macro" -> ConstItemsError(Expand(e.ty, e.args[1]), F)
      [] OTHER -> ArgsError(e.args, F, 1)

----------------------------------------------------------------------------
(* The state machine: each program in turn is expanded, type-checked,      *)
(* const-evaluated (the constructor nz_T step by step) and, when it        *)
(* compiled, run.                                                          *)

P == Programs[p]

Init ==
    /\ macro \in IntTypes
    /\ ptr_width \in IF macro \in {"usize", "isize"} THEN PointerWidths ELSE {64}
    /\ const_err \in ConstErrKinds
    /\ arg \in Args(macro)
    /\ p = 1
    /\ pc = "source"
    /\ exp = Lit(0)
    /\ E = NoValue
    /\ idx = 0
    /\ opt = NoOption
    /\ NZ = NoValue
    /\ steps = <<>>
    /\ outcome = [q \in Progs |-> "pending"]
    /\ reason = [q \in Progs |-> ""]
    /\ phase = [q \in Progs |-> ""]
    /\ result = [q \in Progs |-> NoValue]
    /\ rt_ops = [q \in Progs |-> <<>>]

\* the current program ends with the given outcome
Finish(kind, why) ==
    /\ outcome' = [outcome EXCEPT ![p] = kind]
    /\ reason' = [reason EXCEPT ![p] = why]
    /\ pc' = "finished"

\* a const-evaluation failure `why` inside an item carrying `attr`: an error
\* where it is reported at level deny, silence where an allow reaches it
Report(attr, why) ==
    IF ReportLevel(attr, P.lint) = "deny"
    THEN Finish("compile_error", why)
    ELSE Finish("suppressed", why)

\* macro expansion: the invocation is replaced by the macro's body
ExpandMacro ==
    /\ pc = "source"
    /\ exp' = Expand(macro, arg)
    /\ pc' = "expanded"
    /\ UNCHANGED <<ptr_width, const_err, macro, arg, p, E, idx, opt, NZ, steps,
                   outcome, reason, phase, result, rt_ops>>

\* name resolution and type checking of the expanded program
TypeCheck ==
    /\ pc = "expanded"
    /\ LET want == IF P.ctx = "let" THEN "any" ELSE NonZeroOf(macro)
           err  == Check(exp, want, CallerScope,
                         IF P.ctx = "let" THEN 1 ELSE Len(CallerScope) + 1)
       IN  IF err # "ok"
           THEN Finish("compile_error", err)
           ELSE /\ pc' = "bind_E"
                /\ UNCHANGED <<outcome, reason>>
    /\ UNCHANGED <<ptr_width, const_err, macro, arg, p, exp, E, idx, opt, NZ, steps,
                   phase, result, rt_ops>>

\* const __E: T = $val;
BindE ==
    /\ pc = "bind_E"
    /\ LET next == IF HasNZ(exp) THEN "nz_assert" ELSE "tail"
       IN  IF ~HasE(exp)
           THEN /\ pc' = next
                /\ UNCHANGED <<E, outcome, reason>>
           ELSE LET it == exp.items[1]
                    v  == EvalItem(it, Len(OuterScope(exp)), OuterScope(exp), {})
                IN  IF v.tag = "err" /\ (v.hard \/ ReportLevel(it.attr, P.lint) = "deny")
                    THEN /\ Finish("compile_error", v.why)
                         /\ UNCHANGED E
                    ELSE /\ E' = v
                         /\ pc' = next
                         /\ UNCHANGED <<outcome, reason>>
    /\ UNCHANGED <<ptr_width, const_err, macro, arg, p, exp, idx, opt, NZ, steps,
                   phase, result, rt_ops>>

\* nz_T(__E), first statement:  let _ = ["N must not be zero"][($n == 0) as usize];
NzAssert ==
    /\ pc = "nz_assert"
    /\ LET it == exp.args[1].items[1]
       IN  IF E.tag = "err"
           THEN /\ Report(it.attr, E.why)
                /\ UNCHANGED <<idx, steps, phase>>
           ELSE /\ idx' = IndexOf(E.bits)
                /\ steps' = Append(steps, "assert")
                /\ phase' = [phase EXCEPT ![p] = "compile"]
                /\ IF InBounds(idx')
                   THEN /\ pc' = "nz_new"
                        /\ UNCHANGED <<outcome, reason>>
                   ELSE Report(it.attr, "index_out_of_bounds")
    /\ UNCHANGED <<ptr_width, const_err, macro, arg, p, exp, E, opt, NZ, result, rt_ops>>

\* nz_T(__E), the scrutinee:  $NonZeroInt::new($n)
NzNew ==
    /\ pc = "nz_new"
    /\ opt' = NonZeroNew(macro, E.bits)
    /\ steps' = Append(steps, "new")
    /\ pc' = "nz_match"
    /\ UNCHANGED <<ptr_width, const_err, macro, arg, p, exp, E, idx, NZ,
                   outcome, reason, phase, result, rt_ops>>

\* nz_T(__E), the match:  Some(x) => x,  None => loop {}
NzMatch ==
    /\ pc \in {"nz_match", "nz_loop"}
    /\ IF pc = "nz_match" /\ opt.some
       THEN /\ NZ' = Ok(opt.ty, opt.bits)
            /\ steps' = Append(steps, "some")
            /\ pc' = "tail"
       ELSE /\ pc' = "nz_loop"
            /\ UNCHANGED <<NZ, steps>>
    /\ UNCHANGED <<ptr_width, const_err, macro, arg, p, exp, E, idx, opt,
                   outcome, reason, phase, result, rt_ops>>

\* the rest of compilation: in a const item the block's value is computed
\* now, as the initialiser of the caller's constant; in a function body every const item the stepwise evaluation did not
\* cover is evaluated and the tail is left to run time, unless an operation
\* of the body is known to overflow (lint arithmetic_overflow, denied by
\* default); the lint on literals runs last
FinishCompile ==
    /\ pc = "tail"
    /\ LET standard == HasNZ(exp) /\ TailOf(exp) = Name("NZ")
           calls == "zero_test" \in
                        {RuntimeOps(exp, CallerScope)[i] :
                            i \in 1..Len(RuntimeOps(exp, CallerScope))}
           ci == ConstItemsError(exp, CallerScope)
           rt == Eval(Body(exp), "any", CallerScope, {})
           v == IF standard THEN NZ
                ELSE IF P.ctx = "const_item" THEN rt
                ELSE IF ci.tag = "err" THEN ci
                ELSE IF KnownOverflow(exp, "any", CallerScope)
                     THEN Err("arith_overflow", FALSE)
                ELSE NoValue
       IN  /\ phase' = [phase EXCEPT ![p] =
                            IF calls /\ P.ctx = "const_item" THEN "compile" ELSE @]
           /\ IF v.tag = "err"
              THEN /\ IF v.hard THEN Finish("compile_error", v.why)
                                ELSE Report("none", v.why)
                   /\ UNCHANGED NZ
              ELSE /\ NZ' = IF v.tag = "ok" THEN v ELSE NZ
                   /\ IF LitOverflow(exp, "any", CallerScope)
                      THEN Finish("compile_error", "!overflowing_literal")
                      ELSE /\ pc' = "compiled"
                           /\ UNCHANGED <<outcome, reason>>
    /\ UNCHANGED <<ptr_width, const_err, macro, arg, p, exp, E, idx, opt, steps,
                   result, rt_ops>>

\* the running program executed `ops` and got v
Ran(ops, v) ==
    /\ rt_ops' = [rt_ops EXCEPT ![p] = ops]
    /\ phase' = [phase EXCEPT ![p] =
                     IF \E i \in 1..Len(ops) : ops[i] = "zero_test"
                     THEN "runtime" ELSE @]
    /\ IF v.tag = "err"
       THEN /\ Finish(IF v.why = "diverges" THEN "runtime_hang"
                      ELSE "runtime_panic", v.why)
            /\ UNCHANGED result
       ELSE /\ result' = [result EXCEPT ![p] = v]
            /\ Finish("ok", "")

\* the compiled program runs and uses the invocation's value; a + that
\* overflows while it runs panics in a build with overflow checks and wraps
\* in a build without them
Run ==
    /\ pc = "compiled"
    /\ LET standard == HasNZ(exp) /\ TailOf(exp) = Name("NZ")
           ops == IF P.ctx = "const_item" THEN <<"load_const">>
                  ELSE IF P.ctx = "let" THEN RuntimeOps(exp, CallerScope)
                  ELSE <<"call">> \o RuntimeOps(exp, CallerScope)
           v   == IF standard \/ P.ctx = "const_item" THEN NZ
                  ELSE Eval(exp, "any", CallerScope, {})
       IN  \E checks \in IF Overflowed(v) THEN BOOLEAN ELSE {TRUE} :
               Ran(ops, IF checks THEN v
                        ELSE Eval(Wrapping(exp), "any", CallerScope, {}))
    /\ UNCHANGED <<ptr_width, const_err, macro, arg, p, exp, E, idx, opt, NZ, steps>>

\* the next program is taken up
NextProgram ==
    /\ pc = "finished"
    /\ p < Len(Programs)
    /\ p' = p + 1
    /\ pc' = "source"
    /\ exp' = Lit(0)
    /\ E' = NoValue
    /\ idx' = 0
    /\ opt' = NoOption
    /\ NZ' = NoValue
    /\ steps' = <<>>
    /\ UNCHANGED <<ptr_width, const_err, macro, arg, outcome, reason, phase, result, rt_ops>>

Next ==
    \/ ExpandMacro
    \/ TypeCheck
    \/ BindE
    \/ NzAssert
    \/ NzNew
    \/ NzMatch
    \/ FinishCompile
    \/ Run
    \/ NextProgram

Spec == Init /\ [][Next]_vars

\* constant evaluation makes progress: a constructor call that can take its
\* next step takes it
FairSpec == Spec /\ WF_vars(NzAssert) /\ WF_vars(NzNew) /\ WF_vars(NzMatch)

AllFinished == p = Len(Programs) /\ pc = "finished"

----------------------------------------------------------------------------
(* What the caller wrote, read in the caller's own scope.                  *)

\* program q has been compiled (and run, if it compiled)
Done(q) == q < p \/ (q = p /\ pc = "finished")

ProgWith(ctx, lint) == CHOOSE q \in Progs : Programs[q] = [ctx |-> ctx, lint |-> lint]

\* "ok" when the argument is a constant expression of the macro's type
ArgStatic ==
    IF Check(arg, macro, CallerScope, Len(CallerScope) + 1) # "ok"
    THEN Check(arg, macro, CallerScope, Len(CallerScope) + 1)
    ELSE IF LitOverflow(arg, macro, CallerScope) THEN "!overflowing_literal"
    ELSE "ok"

\* the type of the argument where the macro's type is expected
ArgType == TypeOf(arg, macro, CallerScope, Len(CallerScope) + 1)

\* the argument's value, computed from the caller's definitions
ArgValue == Eval(arg, macro, CallerScope, {})

\* a bit sequence with a bit set: a non-zero integer
HasSetBit(b) == \E i \in 1..Len(b) : b[i] = 1

NonZeroArg == ArgStatic = "ok" /\ ArgValue.tag = "ok" /\ HasSetBit(ArgValue.bits)

ZeroArg == ArgStatic = "ok" /\ ArgValue.tag = "ok" /\ ~HasSetBit(ArgValue.bits)

RECURSIVE Mentions(_, _)
\* whether the expression e uses the identifier id
Mentions(e, id) ==
    \/ e.op = "name" /\ e.name = id
    \/ \E i \in 1..Len(e.args) : Mentions(e.args[i], id)

RECURSIVE HasMacroCall(_)
HasMacroCall(e) ==
    \/ e.op = "macro"
    \/ \E i \in 1..Len(e.args) : HasMacroCall(e.args[i])

\* program q produced the wrapper of the macro's type holding the bits b
Yields(q, b) ==
    /\ outcome[q] = "ok"
    /\ result[q].tag = "ok"
    /\ result[q].ty = NonZeroOf(macro)
    /\ result[q].bits = b

----------------------------------------------------------------------------
(* C1: for each of the twelve macros and every constant expression whose   *)
(* value v is a non-zero value of the macro's primitive type (negative     *)
(* values, MIN and MAX included), the invocation compiles and yields the   *)
(* NonZero wrapper of that type whose get() equals v.                      *)
C1_AllNonZeroYield ==
    NonZeroArg => \A q \in Progs : Done(q) => Yields(q, ArgValue.bits)

\* C1 restricted to arguments that do not use the identifier __E
ValuePreserved ==
    (NonZeroArg /\ ~Mentions(arg, "__E")) =>
        \A q \in Progs : Done(q) => Yields(q, ArgValue.bits)

ValuePreservedWitness ==
    /\ AllFinished
    /\ macro = "i128"
    /\ arg = TMin("i128")
    /\ \A q \in Progs : Yields(q, MinBits("i128"))

(* C2: for each of the twelve macros, an invocation whose constant         *)
(* argument evaluates to zero always ends in a compilation failure, and no *)
(* NonZero wrapper value is ever produced for it: the constructor never    *)
(* gets past its assertion.                                                *)
C2_ZeroNeverYields ==
    ZeroArg =>
        /\ pc \notin {"nz_new", "nz_match", "nz_loop", "tail", "compiled"}
        /\ NZ = NoValue
        /\ \A q \in Progs :
              /\ result[q] = NoValue
              /\ rt_ops[q] = <<>>
              /\ Done(q) => outcome[q] = "compile_error"
                            /\ reason[q] = "index_out_of_bounds"

C2_Witness ==
    /\ AllFinished
    /\ macro = "usize"
    /\ arg = WrapAdd(TMax("usize"), Lit(1))
    /\ ZeroArg
    /\ \A q \in Progs : outcome[q] = "compile_error"

(* C3: the outcome of an invocation does not depend on the usage context:  *)
(* under the same lint setting, the const-item, let and const-fn programs  *)
(* end the same way with the same value, and whenever the zero test ran it *)
(* ran at compile time, in the evaluation of the macro's const NZ.         *)
C3_ContextIndependent ==
    /\ \A q \in Progs :
          Done(q) => /\ outcome[q] \in {"ok", "compile_error"}
                     /\ phase[q] \in {"", "compile"}
                     /\ outcome[q] = "ok" => phase[q] = "compile"
    /\ \A q1, q2 \in Progs :
          (Done(q1) /\ Done(q2) /\ Programs[q1].lint = Programs[q2].lint) =>
              /\ outcome[q1] = outcome[q2]
              /\ reason[q1] = reason[q2]
              /\ result[q1] = result[q2]

C3_Witness ==
    /\ AllFinished
    /\ ZeroArg
    /\ arg = Lit(0)
    /\ \A c \in {"const_item", "let", "const_fn"} :
          /\ outcome[ProgWith(c, "default")] = "compile_error"
          /\ phase[ProgWith(c, "default")] = "compile"

(* C4: zero detection does not depend on the caller's lint settings: in    *)
(* the same usage context the programs with and without                    *)
(* #[allow(const_err)] (on the item or crate-wide) end the same way, and a *)
(* zero argument is a compilation error under every setting.               *)
C4_LintIndependent ==
    /\ \A q1, q2 \in Progs :
          (Done(q1) /\ Done(q2) /\ Programs[q1].ctx = Programs[q2].ctx) =>
              /\ outcome[q1] = outcome[q2]
              /\ reason[q1] = reason[q2]
              /\ result[q1] = result[q2]
    /\ ZeroArg =>
          \A q \in Progs :
              (Done(q) /\ Programs[q].lint # "default") =>
                  outcome[q] = "compile_error"

C4_Witness ==
    /\ AllFinished
    /\ ZeroArg
    /\ const_err = "lint"
    /\ macro = "u16"
    /\ \A c \in {"const_item", "let", "const_fn"} :
          /\ outcome[ProgWith(c, "allow_item")] = "compile_error"
          /\ outcome[ProgWith(c, "allow_crate")] = "compile_error"
          /\ outcome[ProgWith(c, "default")] = "compile_error"

(* C5: all checking happens before the program runs: a program that        *)
(* compiled only loads the already-evaluated constant (after calling the   *)
(* const fn that holds it, in that context); no running program tests for  *)
(* zero, branches on the value or panics.                                  *)
C5_NoRuntimeCheck ==
    \A q \in Progs :
        /\ outcome[q] \notin {"runtime_panic", "runtime_hang"}
        /\ phase[q] # "runtime"
        /\ \A i \in 1..Len(rt_ops[q]) : rt_ops[q][i] \in {"load_const", "call"}
        /\ outcome[q] = "ok" =>
              /\ rt_ops[q] = IF Programs[q].ctx = "const_fn"
                             THEN <<"call", "load_const">> ELSE <<"load_const">>
              /\ q = p => result[q] = NZ

C5_Witness ==
    /\ AllFinished
    /\ NonZeroArg
    /\ outcome[ProgWith("let", "default")] = "ok"
    /\ rt_ops[ProgWith("let", "default")] = <<"load_const">>
    /\ rt_ops[ProgWith("const_fn", "default")] = <<"call", "load_const">>
    /\ rt_ops[ProgWith("const_item", "default")] = <<"load_const">>

(* C6: an argument that is not a constant expression (it uses the local    *)
(* variable bar) is rejected at compile time by each of the twelve macros, *)
(* though bar holds 3 when the program would run; no value is produced.    *)
C6_NonConstRejected ==
    Mentions(arg, "bar") =>
        /\ steps = <<>>
        /\ \A q \in Progs :
              /\ result[q] = NoValue
              /\ Done(q) => outcome[q] = "compile_error" /\ reason[q] = "!non_const"

C6_Witness ==
    /\ AllFinished
    /\ arg = Name("bar")
    /\ macro = "i128"
    /\ \A q \in Progs : outcome[q] = "compile_error" /\ reason[q] = "!non_const"

(* C7: the documented invocation i128!(i128::MIN.count_zeros()) in a let   *)
(* binding is a case of zero detection: its argument evaluates to zero and *)
(* the invocation fails to compile for that reason.                        *)
C7_DocExampleIsZeroDetection ==
    (macro = "i128" /\ arg = CountZeros(TMin("i128"))
        /\ Done(ProgWith("let", "default"))) =>
            /\ ~HasSetBit(Eval(arg, "any", CallerScope, {}).bits)
            /\ outcome[ProgWith("let", "default")] = "compile_error"
            /\ reason[ProgWith("let", "default")] = "index_out_of_bounds"

(* C8: in the constructor nz_T(n) the assertion indexes position 0 when n  *)
(* is non-zero and position 1 (out of bounds, an error) exactly when n is  *)
(* zero, and it runs before NonZero::new(n); so the None => loop {} branch *)
(* is never reached, and the constructor always terminates, with an error  *)
(* (n = 0) or with Some's payload (n # 0).                                 *)
C8_CtorSteps ==
    /\ pc # "nz_loop"
    /\ steps \in {<<>>, <<"assert">>, <<"assert", "new">>, <<"assert", "new", "some">>}
    /\ steps # <<>> =>
          /\ idx = (IF HasSetBit(E.bits) THEN 0 ELSE 1)
          /\ idx = 1 => /\ steps = <<"assert">>
                        /\ pc = "finished"
                        /\ outcome[p] = "compile_error"
                        /\ reason[p] = "index_out_of_bounds"
          /\ Len(steps) >= 2 => idx = 0 /\ opt.some /\ opt.bits = E.bits
          /\ Len(steps) = 3 => NZ = Ok(NonZeroOf(macro), E.bits)

\* C8: the constructor's steps are as C8_CtorSteps says in every state, and
\* every constructor call that starts reaches the tail or the failure
C8_CtorTerminates ==
    /\ []C8_CtorSteps
    /\ (pc = "nz_assert") ~> (pc \in {"tail", "finished"})

C8_Witness ==
    /\ steps = <<"assert">>
    /\ idx = 1
    /\ E.tag = "ok"
    /\ ~HasSetBit(E.bits)
    /\ pc = "finished"
    /\ outcome[p] = "compile_error"

(* C9: each macro binds its argument to a constant of exactly its own      *)
(* primitive type, without conversion or truncation, before the zero       *)
(* check: an argument of another integer type is rejected at compile time  *)
(* whether or not its value is zero, and the zero check never runs on it.  *)
C9_ExactType ==
    /\ E.tag = "ok" => E.ty = macro /\ ArgType = macro /\ Len(E.bits) = Width(macro)
    /\ (ArgType \in IntTypes /\ ArgType # macro) =>
          /\ E = NoValue
          /\ steps = <<>>
          /\ \A q \in Progs :
                /\ phase[q] = ""
                /\ result[q] = NoValue
                /\ Done(q) => outcome[q] = "compile_error"
                              /\ reason[q] = "!type_mismatch"

C9_Witness ==
    /\ AllFinished
    /\ macro = "i128"
    /\ arg = LitT(4, "u32")
    /\ ArgType = "u32"
    /\ \A q \in Progs : outcome[q] = "compile_error" /\ reason[q] = "!type_mismatch"

(* C10: the argument is evaluated in the caller's scope: a name inside it  *)
(* never resolves to the macro's own __E or NZ, so an argument that uses a *)
(* caller constant named NZ or __E, or is built from a nested invocation,  *)
(* compiles and yields the value computed from the caller's definitions.   *)
C10_CallerScope ==
    (NonZeroArg /\ (Mentions(arg, "NZ") \/ Mentions(arg, "__E") \/ HasMacroCall(arg))) =>
        \A q \in Progs : Done(q) => Yields(q, ArgValue.bits)

\* C10 for the caller's NZ and for nested invocations
CallerNZVisible ==
    (NonZeroArg /\ ~Mentions(arg, "__E") /\ (Mentions(arg, "NZ") \/ HasMacroCall(arg))) =>
        \A q \in Progs : Done(q) => Yields(q, ArgValue.bits)

====
